---- MODULE Spec2Model ----
(***************************************************************************)
(* Range-constrained numeric holders of src/lib/util/with_limits.hpp:      *)
(* StaticallyBounded<T, min, max, wrap> and DynamicallyBounded<T, wrap>.   *)
(*                                                                         *)
(* One object is modelled.  `variant` says which of the two templates it   *)
(* instantiates; `wrap`, `min` and `max` are the template parameters       *)
(* (`min`/`max` are those of StaticallyBounded, instantiated with          *)
(* min <= max); `value_`, `min_`, `max_` are the private fields (`min_`    *)
(* and `max_` exist in DynamicallyBounded only).                           *)
(*                                                                         *)
(* T is an integral type (std::is_integral_v<T> holds, so the wrap length  *)
(* is max - min + 1).  All values stay far inside T's limits, so the       *)
(* arithmetic of T is the arithmetic of the integers.                      *)
(*                                                                         *)
(* `call`, `prev` and `run` are history variables: the last call made on   *)
(* the object (its argument, the fields before it, what it returned), the  *)
(* setter call right before a setter call, and the values stored by the    *)
(* current run of consecutive increments (or decrements).                  *)
(***************************************************************************)
EXTENDS Integers, Sequences, FiniteSets, TLC

\* Arguments, template parameters and initial values are drawn from -N..N.
N == 2
Vals == (0 - N)..N

VARIABLES variant, wrap, min, max, value_, min_, max_, call, prev, run

vars == <<variant, wrap, min, max, value_, min_, max_, call, prev, run>>

tparams == <<variant, wrap, min, max>>

-----------------------------------------------------------------------------
(* Library functions the header calls.                                     *)

std_max(a, b) == IF a < b THEN b ELSE a

\* std::clamp(v, lo, hi).  With hi < lo the behaviour is undefined; the
\* outcomes are those of the two implementations in use:
\*   (v < lo) ? lo : (hi < v) ? hi : v      and      min(max(v, lo), hi).
std_clamp(v, lo, hi) ==
  IF hi < lo
    THEN { IF v < lo THEN lo ELSE IF hi < v THEN hi ELSE v,
           LET m == std_max(v, lo) IN IF hi < m THEN hi ELSE m }
    ELSE { IF v < lo THEN lo ELSE IF hi < v THEN hi ELSE v }

\* util::math::modulo(a, b), b > 0: the floored modulo, a value r in [0, b)
\* with r = a - k * b for an integer k.
modulo(a, b) == a % b

\* T's operator/ : truncates toward zero.  Division by zero is undefined:
\* any value of the range may come out.
int_div(a, b) ==
  IF b = 0 THEN Vals
  ELSE LET aa == IF a < 0 THEN 0 - a ELSE a
           bb == IF b < 0 THEN 0 - b ELSE b
           q  == aa \div bb
       IN  { IF (a < 0) = (b < 0) THEN q ELSE 0 - q }

-----------------------------------------------------------------------------
(* StaticallyBounded<T, min, max, wrap>                                    *)

\* StaticallyBounded(T init_val): the values the constructor may store.
SB_ctor(init_val) == std_clamp(init_val, min, max)

\* SB_assign with the offset from min forgotten inside the modulo.
SB_assign_unshifted(in) ==
  IF wrap
    THEN IF in < min \/ in > max
           THEN LET length == (max - min) + 1
                IN  { min + modulo(in, length) }
           ELSE { in }
    ELSE std_clamp(in, min, max)

\* operator=(const T in): the values the assignment may store.
SB_assign(in) ==
  IF wrap
    THEN IF in < min \/ in > max
           THEN LET length == (max - min) + 1
                IN  { min + modulo(in - min, length) }
           ELSE { in }
    ELSE std_clamp(in, min, max)

\* What a call returns: nothing, a copy of the object, or the object itself.
RetVoid == [kind |-> "void", value_ |-> 0]
RetCopy(v) == [kind |-> "copy", value_ |-> v]
RetSelf(v) == [kind |-> "self", value_ |-> v]

\* Each mutator as the set of its outcomes [value_ (stored), ret (returned)].
SB_add(in) == { [value_ |-> r, ret |-> RetSelf(r)] : r \in SB_assign(value_ + in) }

SB_sub(in) == { [value_ |-> r, ret |-> RetSelf(r)] : r \in SB_assign(value_ - in) }

SB_mul(in) == { [value_ |-> r, ret |-> RetSelf(r)] : r \in SB_assign(value_ * in) }

SB_div(in) ==
  UNION { { [value_ |-> r, ret |-> RetSelf(r)] : r \in SB_assign(q) } : q \in int_div(value_, in) }

\* SB_preinc with the snapshot taken after the assignment.
SB_preinc_late == { [value_ |-> r, ret |-> RetCopy(r)] : r \in SB_assign(value_ + 1) }

\* operator++(): tmp = *this; operator=(value_ + 1); return tmp
SB_preinc == { [value_ |-> r, ret |-> RetCopy(value_)] : r \in SB_assign(value_ + 1) }

\* operator++(int): operator=(value_ + 1); return *this
SB_postinc == { [value_ |-> r, ret |-> RetSelf(r)] : r \in SB_assign(value_ + 1) }

\* operator--(): tmp = *this; operator=(value_ - 1); return tmp
SB_predec == { [value_ |-> r, ret |-> RetCopy(value_)] : r \in SB_assign(value_ - 1) }

\* operator--(int): operator=(value_ - 1); return *this
SB_postdec == { [value_ |-> r, ret |-> RetSelf(r)] : r \in SB_assign(value_ - 1) }

-----------------------------------------------------------------------------
(* DynamicallyBounded<T, wrap>                                             *)

\* DynamicallyBounded(T init_val, T min, T max) : min_(min), max_(max)
\*   max_ = std::max(min_, max_); value_ = std::clamp(init_val, min, max);
\* the clamp takes the PARAMETERS min and max, not the fields.
DB_ctor(init_val, p_min, p_max) ==
  { [value_ |-> v, min_ |-> p_min, max_ |-> std_max(p_min, p_max)] :
      v \in std_clamp(init_val, p_min, p_max) }

\* DB_set_min without its guard.
DB_set_min_unguarded(new_min) ==
  [value_ |-> value_, min_ |-> new_min, max_ |-> max_]

\* DB_set_min re-clamping the stored value at once.
DB_set_min_eager(new_min) ==
  [value_ |-> IF new_min <= max_ /\ value_ < new_min THEN new_min ELSE value_,
   min_   |-> IF new_min <= max_ THEN new_min ELSE min_,
   max_   |-> max_]

\* void min(const T new_min): the fields after the call.
DB_set_min(new_min) ==
  [value_ |-> value_,
   min_   |-> IF new_min <= max_ THEN new_min ELSE min_,
   max_   |-> max_]

\* DB_set_max without its guard.
DB_set_max_unguarded(new_max) ==
  [value_ |-> value_, min_ |-> min_, max_ |-> new_max]

\* void max(const T new_max): the fields after the call.
DB_set_max(new_max) ==
  [value_ |-> value_,
   min_   |-> min_,
   max_   |-> IF min_ <= new_max THEN new_max ELSE max_]

\* DB_assign clamping against the upper bound twice.
DB_assign_max_twice(in) ==
  IF wrap
    THEN IF in < min_ \/ in > max_
           THEN LET length == (max_ - min_) + 1
                IN  { min_ + modulo(in - min_, length) }
           ELSE { in }
    ELSE std_clamp(in, max_, max_)

\* DB_assign ignoring the wrap flag.
DB_assign_no_wrap(in) == std_clamp(in, min_, max_)

\* operator=(const T in): the values the assignment may store.
DB_assign(in) ==
  IF wrap
    THEN IF in < min_ \/ in > max_
           THEN LET length == (max_ - min_) + 1
                IN  { min_ + modulo(in - min_, length) }
           ELSE { in }
    ELSE std_clamp(in, min_, max_)

DB_add(in) == DB_assign(value_ + in)

DB_sub(in) == DB_assign(value_ - in)

\* DB_mul storing the product without going through operator=.
DB_mul_raw(in) == { value_ * in }

DB_mul(in) == DB_assign(value_ * in)

DB_div(in) == UNION { DB_assign(q) : q \in int_div(value_, in) }

DB_inc == DB_assign(value_ + 1)

DB_dec == DB_assign(value_ - 1)

-----------------------------------------------------------------------------
(* History                                                                 *)

NoCall == [op |-> "none", in |-> 0]

\* The bounds in force: template parameters or fields.
Lo == IF variant = "static" THEN min ELSE min_
Hi == IF variant = "static" THEN max ELSE max_

Called(op, in, ret) ==
  [op |-> op, in |-> in, a_min |-> 0, a_max |-> 0,
   value_ |-> value_, min_ |-> Lo, max_ |-> Hi, ret |-> ret]

Constructed(init_val, p_min, p_max) ==
  [op |-> "ctor", in |-> init_val, a_min |-> p_min, a_max |-> p_max,
   value_ |-> 0, min_ |-> 0, max_ |-> 0, ret |-> RetVoid]

NoRun == [dir |-> "none", vals |-> <<>>]

\* The run of consecutive increments (dir = "inc") or decrements ("dec"):
\* the stored value before the first of them and after each.  A run is
\* restarted after max - min + 1 steps.
Step(dir, new) ==
  IF run.dir = dir /\ Len(run.vals) < (Hi - Lo) + 2
    THEN [dir |-> dir, vals |-> Append(run.vals, new)]
    ELSE [dir |-> dir, vals |-> <<value_, new>>]

-----------------------------------------------------------------------------
(* Construction                                                            *)

Init ==
  /\ wrap \in BOOLEAN
  /\ prev = NoCall
  /\ run = NoRun
  /\ \/ /\ variant = "static"
        /\ min \in Vals /\ max \in Vals /\ min <= max
        /\ min_ = 0 /\ max_ = 0
        /\ \E init_val \in Vals :
             /\ value_ \in SB_ctor(init_val)
             /\ call = Constructed(init_val, min, max)
     \/ /\ variant = "dynamic"
        /\ min = 0 /\ max = 0
        /\ \E init_val \in Vals, p_min \in Vals, p_max \in Vals :
             /\ \E o \in DB_ctor(init_val, p_min, p_max) :
                  value_ = o.value_ /\ min_ = o.min_ /\ max_ = o.max_
             /\ call = Constructed(init_val, p_min, p_max)

-----------------------------------------------------------------------------
(* Calls on a StaticallyBounded                                            *)

SB_Write(op, in, outcomes, r) ==
  /\ variant = "static"
  /\ \E o \in outcomes :
       /\ value_' = o.value_
       /\ call' = Called(op, in, o.ret)
       /\ run' = IF r = "none" THEN NoRun ELSE Step(r, o.value_)
  /\ prev' = NoCall
  /\ UNCHANGED <<tparams, min_, max_>>

SB_Assign ==
  \E in \in Vals :
    SB_Write("=", in, { [value_ |-> r, ret |-> RetVoid] : r \in SB_assign(in) }, "none")

SB_Add == \E in \in Vals : SB_Write("+=", in, SB_add(in), "none")

SB_Sub == \E in \in Vals : SB_Write("-=", in, SB_sub(in), "none")

SB_Mul == \E in \in Vals : SB_Write("*=", in, SB_mul(in), "none")

SB_Div == \E in \in Vals : SB_Write("/=", in, SB_div(in), "none")

SB_PreInc == SB_Write("++()", 1, SB_preinc, "inc")

SB_PostInc == SB_Write("++(int)", 1, SB_postinc, "inc")

SB_PreDec == SB_Write("--()", 1, SB_predec, "dec")

SB_PostDec == SB_Write("--(int)", 1, SB_postdec, "dec")

-----------------------------------------------------------------------------
(* Calls on a DynamicallyBounded                                           *)

DB_Setter(op, in, o) ==
  /\ variant = "dynamic"
  /\ value_' = o.value_ /\ min_' = o.min_ /\ max_' = o.max_
  /\ call' = Called(op, in, RetVoid)
  /\ prev' = IF call.op \in {"min", "max"}
               THEN [op |-> call.op, in |-> call.in, min_ |-> call.min_, max_ |-> call.max_]
               ELSE NoCall
  /\ run' = NoRun
  /\ UNCHANGED tparams

DB_Min == \E new_min \in Vals : DB_Setter("min", new_min, DB_set_min(new_min))

DB_Max == \E new_max \in Vals : DB_Setter("max", new_max, DB_set_max(new_max))

DB_Write(op, in, outcomes, r) ==
  /\ variant = "dynamic"
  /\ \E v \in outcomes :
       /\ value_' = v
       /\ run' = IF r = "none" THEN NoRun ELSE Step(r, v)
  /\ call' = Called(op, in, RetVoid)
  /\ prev' = NoCall
  /\ UNCHANGED <<tparams, min_, max_>>

DB_Assign == \E in \in Vals : DB_Write("=", in, DB_assign(in), "none")

DB_Add == \E in \in Vals : DB_Write("+=", in, DB_add(in), "none")

DB_Sub == \E in \in Vals : DB_Write("-=", in, DB_sub(in), "none")

DB_Mul == \E in \in Vals : DB_Write("*=", in, DB_mul(in), "none")

DB_Div == \E in \in Vals : DB_Write("/=", in, DB_div(in), "none")

DB_Inc == DB_Write("++", 1, DB_inc, "inc")

DB_Dec == DB_Write("--", 1, DB_dec, "dec")

-----------------------------------------------------------------------------

Next ==
  \/ SB_Assign \/ SB_Add \/ SB_Sub \/ SB_Mul \/ SB_Div
  \/ SB_PreInc \/ SB_PostInc \/ SB_PreDec \/ SB_PostDec
  \/ DB_Min \/ DB_Max
  \/ DB_Assign \/ DB_Add \/ DB_Sub \/ DB_Mul \/ DB_Div
  \/ DB_Inc \/ DB_Dec

Spec == Init /\ [][Next]_vars

-----------------------------------------------------------------------------
(* Properties                                                              *)

WriteOps == {"=", "+=", "-=", "*=", "/=", "++()", "++(int)", "--()", "--(int)", "++", "--"}
IncOps == {"++()", "++(int)", "++"}
DecOps == {"--()", "--(int)", "--"}

InRange(v, lo, hi) == lo <= v /\ v <= hi

\* The value nearest to v in [lo, hi], lo <= hi.
Nearest(v, lo, hi) == IF v < lo THEN lo ELSE IF v > hi THEN hi ELSE v

Congruent(a, b, length) == \E k \in (0 - 4 * (N + 1) * (N + 1))..(4 * (N + 1) * (N + 1)) : a - b = k * length

\* C1: right after every write operation (assignment, compound arithmetic,
\* increment, decrement), of either variant and in clamp and wrap mode, the
\* stored value lies within the bounds then in force.
C1_WriteLeavesValueInRange ==
  call.op \in WriteOps => InRange(value_, Lo, Hi)

\* A runtime-bounded value that a setter left below its minimum is multiplied
\* to a product above the maximum, in wrap mode.
C1_Witness ==
  /\ variant = "dynamic" /\ wrap
  /\ call.op = "*="
  /\ call.value_ < call.min_
  /\ call.value_ * call.in > call.max_

\* C2: DynamicallyBounded(initial, min, max) leaves min_ = min,
\* max_ = max(min, max) and value_ = clamp(initial, min_, max_), for every
\* input, min > max included.
C2_CtorClampsToResultingBounds ==
  (variant = "dynamic" /\ call.op = "ctor") =>
     /\ min_ = call.a_min
     /\ max_ = IF call.a_min > call.a_max THEN call.a_min ELSE call.a_max
     /\ min_ <= max_
     /\ value_ = Nearest(call.in, min_, max_)

\* C3: in wrap mode, after operator=(v) the stored value lies in [min, max]
\* and is congruent to v modulo max - min + 1, for v below min as for v
\* above max.
C3_WrapAssign ==
  (call.op = "=" /\ wrap) =>
     /\ InRange(value_, Lo, Hi)
     /\ Congruent(value_, call.in, (Hi - Lo) + 1)

\* An assignment of a value more than one period below min.
C3_Witness ==
  /\ call.op = "=" /\ wrap
  /\ Hi > Lo
  /\ call.in < Lo - (Hi - Lo + 1)
  /\ value_ # Lo

\* C4: in clamp mode, after operator=(v) the stored value lies in [min, max]:
\* v itself when v is in range, min when v < min, max when v > max.
C4_ClampAssign ==
  (call.op = "=" /\ ~wrap) =>
     /\ InRange(value_, Lo, Hi)
     /\ InRange(call.in, Lo, Hi) => value_ = call.in
     /\ call.in < Lo => value_ = Lo
     /\ call.in > Hi => value_ = Hi

\* An assignment above max to a runtime-bounded value whose bounds a setter
\* has narrowed.
C4_Witness ==
  /\ variant = "dynamic" /\ ~wrap
  /\ call.op = "=" /\ call.in > Hi /\ value_ = Hi /\ Lo < Hi
  /\ call.value_ > Hi

\* C5: a DynamicallyBounded always has min_ <= max_, and a rejected setter
\* call leaves both bounds as they were.
C5_BoundsOrdered ==
  variant = "dynamic" =>
     /\ min_ <= max_
     /\ (call.op = "min" /\ call.in > call.max_) => (min_ = call.min_ /\ max_ = call.max_)
     /\ (call.op = "max" /\ call.in < call.min_) => (min_ = call.min_ /\ max_ = call.max_)

\* A rejected max() right after an accepted min().
C5_Witness ==
  /\ variant = "dynamic"
  /\ prev.op = "min" /\ prev.in <= prev.max_ /\ prev.in # prev.min_
  /\ call.op = "max" /\ call.in < call.min_

\* C6: a setter call, accepted or rejected, leaves the stored value as it
\* was, even outside the new bounds; the next write puts it within the
\* bounds in force at that write.
C6_SetterKeepsValue ==
  variant = "dynamic" =>
     /\ call.op \in {"min", "max"} => value_ = call.value_
     /\ (call.op \in WriteOps /\ ~InRange(call.value_, call.min_, call.max_)) =>
           /\ min_ = call.min_ /\ max_ = call.max_
           /\ InRange(value_, min_, max_)

\* An accepted min() that leaves the stored value below the new minimum.
C6_Witness ==
  /\ variant = "dynamic"
  /\ call.op = "min" /\ min_ = call.in /\ call.in # call.min_
  /\ InRange(call.value_, call.min_, call.max_)
  /\ value_ < min_

\* C7: construction clamps in both variants, with or without wrap: an initial
\* value below min stores min, one above max stores max, one in range is
\* stored unchanged.
C7_CtorAlwaysClamps ==
  call.op = "ctor" =>
     /\ call.in < Lo => value_ = Lo
     /\ call.in > Hi => value_ = Hi
     /\ InRange(call.in, Lo, Hi) => value_ = call.in

\* C8: with bounds [a, b] and a target [c, d], c <= d: when the first setter
\* call is rejected the final bounds are not [c, d]; with the calls in the
\* other order they are; and one of the two orders always works.
C8_SetterOrder ==
  variant = "dynamic" =>
     /\ (prev.op = "min" /\ call.op = "max" /\ prev.in <= call.in) =>
           /\ prev.in > prev.max_  => <<min_, max_>> # <<prev.in, call.in>>
           /\ prev.in <= prev.max_ => <<min_, max_>> = <<prev.in, call.in>>
           /\ call.in < prev.min_  => <<min_, max_>> = <<prev.in, call.in>>
     /\ (prev.op = "max" /\ call.op = "min" /\ call.in <= prev.in) =>
           /\ prev.in < prev.min_  => <<min_, max_>> # <<call.in, prev.in>>
           /\ prev.in >= prev.min_ => <<min_, max_>> = <<call.in, prev.in>>
           /\ call.in > prev.max_  => <<min_, max_>> = <<call.in, prev.in>>
     /\ \A c \in Vals, d \in Vals : c <= d => (c <= max_ \/ min_ <= d)

\* min(c) rejected, then max(d) accepted: the minimum stays where it was.
C8_Witness ==
  /\ variant = "dynamic"
  /\ prev.op = "min" /\ prev.in > prev.max_
  /\ call.op = "max" /\ prev.in <= call.in
  /\ max_ = call.in /\ min_ = prev.min_

\* C9: StaticallyBounded's two increments (two decrements) leave the same
\* stored value, that of operator=(old + 1) (old - 1); operator++() and
\* operator--() return a copy holding the old value, operator++(int) and
\* operator--(int) the object itself.
C9_IncDecReturn ==
  variant = "static" =>
     /\ call.op = "++()" =>
           /\ value_ \in SB_assign(call.value_ + 1)
           /\ call.ret = [kind |-> "copy", value_ |-> call.value_]
     /\ call.op = "++(int)" =>
           /\ value_ \in SB_assign(call.value_ + 1)
           /\ call.ret = [kind |-> "self", value_ |-> value_]
     /\ call.op = "--()" =>
           /\ value_ \in SB_assign(call.value_ - 1)
           /\ call.ret = [kind |-> "copy", value_ |-> call.value_]
     /\ call.op = "--(int)" =>
           /\ value_ \in SB_assign(call.value_ - 1)
           /\ call.ret = [kind |-> "self", value_ |-> value_]
     /\ { o.value_ : o \in SB_preinc } = { o.value_ : o \in SB_postinc }
     /\ { o.value_ : o \in SB_predec } = { o.value_ : o \in SB_postdec }

\* operator++() at max in wrap mode: the copy holds max, the object min.
C9_Witness ==
  /\ variant = "static" /\ wrap /\ min < max
  /\ call.op = "++()"
  /\ call.ret.kind = "copy" /\ call.ret.value_ = max
  /\ value_ = min

\* C10: in wrap mode, from an in-range value, an increment at max stores min,
\* a decrement at min stores max, and max - min + 1 consecutive increments
\* (decrements) visit every value of [min, max] once and end where they
\* began; in clamp mode an increment at max stores max and a decrement at
\* min stores min.
C10_IncDecCycle ==
  LET size == (Hi - Lo) + 1 IN
  /\ (call.op \in IncOps /\ call.value_ = Hi) => value_ = IF wrap THEN Lo ELSE Hi
  /\ (call.op \in DecOps /\ call.value_ = Lo) => value_ = IF wrap THEN Hi ELSE Lo
  /\ (wrap /\ run.dir \in {"inc", "dec"} /\ InRange(run.vals[1], Lo, Hi)) =>
        /\ \A i \in 1..Len(run.vals), j \in 1..Len(run.vals) :
              (i < j /\ j <= size) => run.vals[i] # run.vals[j]
        /\ Len(run.vals) = size + 1 =>
              /\ run.vals[size + 1] = run.vals[1]
              /\ { run.vals[i] : i \in 1..size } = Lo..Hi

\* A full cycle of increments over a range of at least three values that a
\* setter has moved.
C10_Witness ==
  /\ variant = "dynamic" /\ wrap
  /\ run.dir = "inc" /\ Hi - Lo >= 2 /\ Lo # 0
  /\ InRange(run.vals[1], Lo, Hi)
  /\ Len(run.vals) = (Hi - Lo) + 2

====
